---- MODULE Spec2Model ----
(***************************************************************************)
(* A model of the Airport API service: the support-chat view set           *)
(* (chat_msg/views.py) and the airport view sets (airport/views.py).       *)
(* All durable state lives in the relational store; every request is       *)
(* served by its own worker, so a handler that reads the store and then    *)
(* writes it is modelled as two steps that other requests may interleave.  *)
(***************************************************************************)
EXTENDS Integers, Sequences, FiniteSets, TLC

\* ------------------------------------------------------------------ bounds
\* Number of request workers that may be in flight at the same time.
MaxReqs == 2
\* Number of ChatMessage rows the store may come to hold.
MaxMsgs == 2

Reqs == 1..MaxReqs

\* ------------------------------------------------------------- principals
\* request.user as supplied by the authentication layer.  "anon" is the
\* AnonymousUser; u1 is a regular user; s1 and s2 carry is_staff.
Anonymous == "anon"
Users == {"u1", "s1", "s2"}
Principals == Users \cup {Anonymous}
StaffUsers == {"s1", "s2"}

is_authenticated(u) == u # Anonymous
is_staff(u) == u \in StaffUsers

\* HTTP status codes used by the handlers.
HTTP_200_OK == 200
HTTP_201_CREATED == 201
HTTP_204_NO_CONTENT == 204
HTTP_400_BAD_REQUEST == 400
HTTP_401_UNAUTHORIZED == 401
HTTP_403_FORBIDDEN == 403
HTTP_404_NOT_FOUND == 404
HTTP_409_CONFLICT == 409
HTTP_500_INTERNAL_SERVER_ERROR == 500

\* rest_framework.permissions, as imported by the view modules.
IsAdminUser(u) == is_authenticated(u) /\ is_staff(u)
IsAuthenticated(u) == is_authenticated(u)

\* The response of a request the permission check refuses.
permission_denied(u) ==
    IF is_authenticated(u) THEN HTTP_403_FORBIDDEN ELSE HTTP_401_UNAUTHORIZED

\* ------------------------------------------------------------- chat state
\* ChatSupport rows.  Row 3 does not exist: a pk that get_object_or_404 misses.
ChatIds == {1, 2}
ChatPks == ChatIds \cup {3}

VARIABLES
    enabled,        \* ChatSupport.enabled, per row
    is_support,     \* ChatSupport.is_support, per row
    user_list,      \* ChatSupport.user_list (many-to-many), per row
    pc,             \* where each request worker stands in its handler
    rq,             \* the request each worker is serving
    resp,           \* the status each worker answered with (0: none yet)
    last_ok,        \* per (chat, user): the last membership change that succeeded
    listed,         \* the last list/retrieve response of the chat view set
    messages,       \* ChatMessage rows by id
    msg_seq,        \* the last ChatMessage id the store handed out
    last,           \* the last message request and its response
    orders,         \* Order rows: records [id, user]
    order_seq,      \* the last Order id the store handed out
    tickets,        \* Ticket rows: records [flight, row, seat, order]
    opc,            \* where each worker stands in an order request
    orq,            \* the order request each worker is serving
    oresp,          \* the answer each worker gave to its order request
    olisted,        \* the last list/retrieve response of the order view set
    flist,          \* the last list/retrieve response of the flight view set
    access          \* the last request a view set's permission check decided

chatVars == <<enabled, is_support, user_list, pc, rq, resp, last_ok, listed>>
msgVars == <<messages, msg_seq, last>>

orderVars == <<orders, order_seq, tickets, opc, orq, oresp, olisted>>
viewVars == <<flist, access>>

vars == <<chatVars, msgVars, orderVars, viewVars>>

NoRequest == [op |-> "none", user |-> Anonymous, chat |-> 0, during |-> {}]
NoListing == [op |-> "none", user |-> Anonymous, pk |-> 0, status |-> 0, ids |-> {}]

\* The rows as they stand when the service starts: chat 1 was opened by the
\* regular user u1, chat 2 by the staff user s1; perform_create puts the
\* author in user_list.
author_created == [c \in ChatIds |-> IF c = 1 THEN "u1" ELSE "s1"]

MsgIds == 1..MaxMsgs
\* A message id no row ever has.
MsgPks == MsgIds \cup {MaxMsgs + 1}
Texts == {"a", "b"}
NoMessage == [exists |-> FALSE, text |-> "", user |-> Anonymous, support_msg |-> 0]
NoMessageRequest == [op |-> "none", user |-> Anonymous, pk |-> 0, msg |-> 0, status |-> 0]

MsgInitCommon ==
    /\ messages = [m \in MsgIds |-> NoMessage]
    /\ msg_seq = 0
    /\ last = NoMessageRequest

NoOrderRequest == [user |-> Anonymous, tickets |-> <<>>]
NoOrderResponse == [status |-> 0, order |-> 0]
NoOrderListing == [op |-> "none", user |-> Anonymous, pk |-> 0, status |-> 0, ids |-> {}]

NoFlightListing ==
    [op |-> "none", pk |-> 0, route |-> <<>>, departure_time |-> <<>>,
     status |-> 0, rows |-> {}]
NoAccess == [viewset |-> "none", action |-> "none", user |-> Anonymous, served |-> FALSE]

ViewInitCommon ==
    /\ flist = NoFlightListing
    /\ access = NoAccess

OrderInitCommon ==
    /\ ViewInitCommon
    /\ orders = {}
    /\ order_seq = 0
    /\ tickets = {}
    /\ opc = [r \in Reqs |-> "idle"]
    /\ orq = [r \in Reqs |-> NoOrderRequest]
    /\ oresp = [r \in Reqs |-> NoOrderResponse]
    /\ olisted = NoOrderListing

ChatInitCommon ==
    /\ MsgInitCommon
    /\ OrderInitCommon
    /\ user_list = [c \in ChatIds |-> {author_created[c]}]
    /\ pc = [r \in Reqs |-> "idle"]
    /\ rq = [r \in Reqs |-> NoRequest]
    /\ resp = [r \in Reqs |-> 0]
    /\ last_ok = [c \in ChatIds |-> [u \in Users |-> "none"]]
    /\ listed = NoListing

InFlight(r) == pc[r] \in {"connect_add", "disconnect_remove"}

\* The requests of the same user on the same chat that stand between their
\* membership test and their mutation.
Racing(u, pk) == {q \in Reqs : InFlight(q) /\ rq[q].user = u /\ rq[q].chat = pk}

\* msg_support.user_list.filter(id=request.user.id).exists()
user_list_exists(pk, u) == u \in user_list[pk]

finish(r, status) ==
    /\ pc' = [pc EXCEPT ![r] = "done"]
    /\ resp' = [resp EXCEPT ![r] = status]

\* A connect that treats the add as idempotent: it answers 200 to a member.
connect_support_to_chat_idempotent(r, u, pk) ==
    /\ pc[r] = "idle"
    /\ rq' = [rq EXCEPT ![r] = [op |-> "connect", user |-> u, chat |-> pk,
                                 during |-> Racing(u, pk)]]
    /\ IF ~IsAdminUser(u) THEN finish(r, permission_denied(u))
       ELSE IF pk \notin ChatIds THEN finish(r, HTTP_404_NOT_FOUND)
       ELSE IF ~user_list_exists(pk, u)
            THEN /\ pc' = [pc EXCEPT ![r] = "connect_add"]
                 /\ UNCHANGED resp
            ELSE finish(r, HTTP_200_OK)
    /\ UNCHANGED <<enabled, is_support, user_list, last_ok, listed, msgVars, orderVars, viewVars>>

\* connect_support_to_chat, up to and including the membership test: the
\* permission check, get_object_or_404 and the exists() query.  The branch
\* that answers 400 ends the request here.
connect_support_to_chat(r, u, pk) ==
    /\ pc[r] = "idle"
    /\ rq' = [rq EXCEPT ![r] = [op |-> "connect", user |-> u, chat |-> pk,
                                 during |-> Racing(u, pk)]]
    /\ IF ~IsAdminUser(u) THEN finish(r, permission_denied(u))
       ELSE IF pk \notin ChatIds THEN finish(r, HTTP_404_NOT_FOUND)
       ELSE IF ~user_list_exists(pk, u)
            THEN /\ pc' = [pc EXCEPT ![r] = "connect_add"]
                 /\ UNCHANGED resp
            ELSE finish(r, HTTP_400_BAD_REQUEST)
    /\ UNCHANGED <<enabled, is_support, user_list, last_ok, listed, msgVars, orderVars, viewVars>>

\* connect_support_to_chat, the branch taken when the test found no
\* membership: user_list.add (a set insertion: the relation holds a pair at
\* most once), save, 200.  save() rewrites the row's own columns, which no
\* modelled request changes.
connect_add(r) ==
    /\ pc[r] = "connect_add"
    /\ user_list' = [user_list EXCEPT ![rq[r].chat] = @ \cup {rq[r].user}]
    /\ last_ok' = [last_ok EXCEPT ![rq[r].chat][rq[r].user] = "connect"]
    /\ finish(r, HTTP_200_OK)
    /\ UNCHANGED <<enabled, is_support, rq, listed, msgVars, orderVars, viewVars>>

\* disconnect_user_from_chat, up to and including the membership test.
disconnect_user_from_chat(r, u, pk) ==
    /\ pc[r] = "idle"
    /\ rq' = [rq EXCEPT ![r] = [op |-> "disconnect", user |-> u, chat |-> pk,
                                 during |-> Racing(u, pk)]]
    /\ IF ~IsAdminUser(u) THEN finish(r, permission_denied(u))
       ELSE IF pk \notin ChatIds THEN finish(r, HTTP_404_NOT_FOUND)
       ELSE IF user_list_exists(pk, u)
            THEN /\ pc' = [pc EXCEPT ![r] = "disconnect_remove"]
                 /\ UNCHANGED resp
            ELSE finish(r, HTTP_400_BAD_REQUEST)
    /\ UNCHANGED <<enabled, is_support, user_list, last_ok, listed, msgVars, orderVars, viewVars>>

\* disconnect_user_from_chat, the branch taken when the test found the
\* membership: user_list.remove, save, 200.
disconnect_remove(r) ==
    /\ pc[r] = "disconnect_remove"
    /\ user_list' = [user_list EXCEPT ![rq[r].chat] = @ \ {rq[r].user}]
    /\ last_ok' = [last_ok EXCEPT ![rq[r].chat][rq[r].user] = "disconnect"]
    /\ finish(r, HTTP_200_OK)
    /\ UNCHANGED <<enabled, is_support, rq, listed, msgVars, orderVars, viewVars>>

\* The worker has sent its response and takes the next request.
Respond(r) ==
    /\ pc[r] = "done"
    /\ pc' = [pc EXCEPT ![r] = "idle"]
    /\ resp' = [resp EXCEPT ![r] = 0]
    /\ rq' = [q \in Reqs |->
                IF q = r THEN NoRequest
                ELSE [rq[q] EXCEPT !.during = @ \ {r}]]
    /\ UNCHANGED <<enabled, is_support, user_list, last_ok, listed, msgVars, orderVars, viewVars>>

\* ChatSupportViewSet.permission_classes: the view set's default, which the
\* list, retrieve and message actions inherit.
ChatSupport_permission_classes(u) == IsAdminUser(u)

\* ChatSupportViewSet.queryset and get_queryset.
ChatSupport_get_queryset(u) ==
    LET queryset == {c \in ChatIds : enabled[c]}
    IN  IF ~is_staff(u)
        THEN {c \in queryset : u \in user_list[c]}
        ELSE {c \in queryset : is_support[c]}

\* GET /chat_support/: the permission check, then the query set.
ChatSupport_list(u) ==
    /\ listed' =
         IF ~ChatSupport_permission_classes(u)
         THEN [op |-> "list", user |-> u, pk |-> 0,
               status |-> permission_denied(u), ids |-> {}]
         ELSE [op |-> "list", user |-> u, pk |-> 0,
               status |-> HTTP_200_OK, ids |-> ChatSupport_get_queryset(u)]
    /\ UNCHANGED <<enabled, is_support, user_list, pc, rq, resp, last_ok, msgVars, orderVars, viewVars>>

\* GET /chat_support/{pk}: the permission check, then get_object on the
\* query set.
ChatSupport_retrieve(u, pk) ==
    /\ listed' =
         IF ~ChatSupport_permission_classes(u)
         THEN [op |-> "retrieve", user |-> u, pk |-> pk,
               status |-> permission_denied(u), ids |-> {}]
         ELSE IF pk \notin ChatSupport_get_queryset(u)
         THEN [op |-> "retrieve", user |-> u, pk |-> pk,
               status |-> HTTP_404_NOT_FOUND, ids |-> {}]
         ELSE [op |-> "retrieve", user |-> u, pk |-> pk,
               status |-> HTTP_200_OK, ids |-> {pk}]
    /\ UNCHANGED <<enabled, is_support, user_list, pc, rq, resp, last_ok, msgVars, orderVars, viewVars>>

ChatInit ==
    /\ enabled = [c \in ChatIds |-> TRUE]
    /\ is_support = [c \in ChatIds |-> TRUE]
    /\ ChatInitCommon

\* Membership requests by concurrent workers; the unauthenticated caller and
\* the pk of no row are exercised by VisibilityNext.
ChatNext ==
    \/ \E r \in Reqs, u \in Users, pk \in ChatIds : connect_support_to_chat(r, u, pk)
    \/ \E r \in Reqs : connect_add(r)
    \/ \E r \in Reqs, u \in Users, pk \in ChatIds : disconnect_user_from_chat(r, u, pk)
    \/ \E r \in Reqs : disconnect_remove(r)
    \/ \E r \in Reqs : Respond(r)

ChatSpec == ChatInit /\ [][ChatNext]_vars

\* The chat view set as one client at a time sees it, over rows whose flags
\* are set any way an administrator may have set them.
VisibilityInit ==
    /\ enabled \in [ChatIds -> BOOLEAN]
    /\ is_support \in [ChatIds -> BOOLEAN]
    /\ ChatInitCommon

VisibilityNext ==
    \/ \E u \in Principals, pk \in ChatPks : connect_support_to_chat(1, u, pk)
    \/ connect_add(1)
    \/ \E u \in Principals, pk \in ChatPks : disconnect_user_from_chat(1, u, pk)
    \/ disconnect_remove(1)
    \/ Respond(1)
    \/ \E u \in Principals : ChatSupport_list(u)
    \/ \E u \in Principals, pk \in ChatPks : ChatSupport_retrieve(u, pk)

VisibilitySpec == VisibilityInit /\ [][VisibilityNext]_vars

\* ----------------------------------------------------------- chat messages
\* A request body for ChatMessageSerializerCreate: text and support_msg, each
\* possibly left out ("" and 0).
MessageBodies == [text : Texts \cup {""}, support_msg : ChatPks \cup {0}]

\* get_object_or_404(ChatMessage, id=message_pk, user=request.user)
get_message_or_404(message_pk, u) ==
    /\ message_pk \in MsgIds
    /\ messages[message_pk].exists
    /\ messages[message_pk].user = u

answer(op, u, pk, m, status) ==
    last' = [op |-> op, user |-> u, pk |-> pk, msg |-> m, status |-> status]

\* create_message: the serializer is built from request.data, so the row's
\* support_msg is the body's; the copy that carries pk is not used.  A body
\* without text or without an existing support_msg does not validate.
create_message(u, pk, body) ==
    /\ msg_seq < MaxMsgs
    /\ IF ~ChatSupport_permission_classes(u)
       THEN /\ answer("create_message", u, pk, 0, permission_denied(u))
            /\ UNCHANGED <<messages, msg_seq>>
       ELSE IF body.text = "" \/ body.support_msg \notin ChatIds
       THEN /\ answer("create_message", u, pk, 0, HTTP_400_BAD_REQUEST)
            /\ UNCHANGED <<messages, msg_seq>>
       ELSE /\ msg_seq' = msg_seq + 1
            /\ messages' = [messages EXCEPT ![msg_seq + 1] =
                              [exists |-> TRUE, text |-> body.text, user |-> u,
                               support_msg |-> body.support_msg]]
            /\ answer("create_message", u, pk, msg_seq + 1, HTTP_200_OK)
    /\ UNCHANGED <<chatVars, orderVars, viewVars>>

\* update_message: the lookup by id and author, then a partial update from
\* the body.
update_message(u, pk, message_pk, body) ==
    /\ IF ~ChatSupport_permission_classes(u)
       THEN /\ answer("update_message", u, pk, message_pk, permission_denied(u))
            /\ UNCHANGED messages
       ELSE IF ~get_message_or_404(message_pk, u)
       THEN /\ answer("update_message", u, pk, message_pk, HTTP_404_NOT_FOUND)
            /\ UNCHANGED messages
       ELSE IF body.support_msg \notin ChatIds \cup {0}
       THEN /\ answer("update_message", u, pk, message_pk, HTTP_400_BAD_REQUEST)
            /\ UNCHANGED messages
       ELSE /\ messages' = [messages EXCEPT ![message_pk] =
                              [@ EXCEPT !.text = IF body.text = "" THEN @ ELSE body.text,
                                        !.support_msg = IF body.support_msg = 0 THEN @
                                                        ELSE body.support_msg]]
            /\ answer("update_message", u, pk, message_pk, HTTP_200_OK)
    /\ UNCHANGED <<chatVars, msg_seq, orderVars, viewVars>>

\* delete_message: the lookup by id and author, then the delete.
delete_message(u, pk, message_pk) ==
    /\ IF ~ChatSupport_permission_classes(u)
       THEN /\ answer("delete_message", u, pk, message_pk, permission_denied(u))
            /\ UNCHANGED messages
       ELSE IF ~get_message_or_404(message_pk, u)
       THEN /\ answer("delete_message", u, pk, message_pk, HTTP_404_NOT_FOUND)
            /\ UNCHANGED messages
       ELSE /\ messages' = [messages EXCEPT ![message_pk] = NoMessage]
            /\ answer("delete_message", u, pk, message_pk, HTTP_204_NO_CONTENT)
    /\ UNCHANGED <<chatVars, msg_seq, orderVars, viewVars>>

MessageInit == ChatInit

MessageNext ==
    \/ \E u \in Principals, pk \in ChatPks, body \in MessageBodies :
          create_message(u, pk, body)
    \/ \E u \in Principals, pk \in ChatPks, m \in MsgPks, body \in MessageBodies :
          update_message(u, pk, m, body)
    \/ \E u \in Principals, pk \in ChatPks, m \in MsgPks :
          delete_message(u, pk, m)

MessageSpec == MessageInit /\ [][MessageNext]_vars

\* ------------------------------------------------------- flights, orders
\* Flight rows with the airplane each flies: flights 1 and 3 fly an airplane
\* of 2 rows of 1 seat, flight 2 one of 1 row of 1 seat.
FlightIds == {1, 2, 3}
airplane ==
    [f \in FlightIds |->
        IF f = 2 THEN [rows |-> 1, seats_in_row |-> 1]
        ELSE [rows |-> 2, seats_in_row |-> 1]]

\* The ticket specifications a request may carry: the same seat on two
\* flights, a seat beyond seats_in_row, a row beyond rows, a row below 1.
TicketInputs ==
    { [flight |-> 1, row |-> 1, seat |-> 1],
      [flight |-> 2, row |-> 1, seat |-> 1],
      [flight |-> 1, row |-> 1, seat |-> 2],
      [flight |-> 2, row |-> 2, seat |-> 1],
      [flight |-> 1, row |-> 0, seat |-> 1] }

\* The ticket lists of an order request: one ticket, or two.
TicketLists == UNION {[1..n -> TicketInputs] : n \in 1..2}

Slot(t) == <<t.flight, t.row, t.seat>>
TakenSlots(rows) == {Slot(t) : t \in rows}

\* A range check that only bounds the values from above.
ticket_below_max(t) ==
    /\ t.row <= airplane[t.flight].rows
    /\ t.seat <= airplane[t.flight].seats_in_row

\* Ticket validation: the seat lies in the airplane of the ticket's flight.
ticket_in_range(t) ==
    /\ 1 <= t.row /\ t.row <= airplane[t.flight].rows
    /\ 1 <= t.seat /\ t.seat <= airplane[t.flight].seats_in_row

\* OrderSerializer.is_valid: every ticket is in range, its slot is not taken
\* in the store, and no slot occurs twice in the list.
OrderSerializer_is_valid(ts) ==
    /\ \A i \in 1..Len(ts) : ticket_in_range(ts[i])
    /\ \A i \in 1..Len(ts) : Slot(ts[i]) \notin TakenSlots(tickets)
    /\ \A i, j \in 1..Len(ts) : i # j => Slot(ts[i]) # Slot(ts[j])

\* Inserts that the store does not check for uniqueness.
RECURSIVE insert_tickets_unchecked(_, _, _, _)
insert_tickets_unchecked(ts, i, order, rows) ==
    IF i > Len(ts) THEN [ok |-> TRUE, rows |-> rows]
    ELSE insert_tickets_unchecked(ts, i + 1, order,
            rows \cup {[flight |-> ts[i].flight, row |-> ts[i].row,
                        seat |-> ts[i].seat, order |-> order]})

\* The inserts of one order's tickets inside its transaction, in list order:
\* the store refuses a row whose (flight, row, seat) it already holds.
RECURSIVE insert_tickets(_, _, _, _)
insert_tickets(ts, i, order, rows) ==
    IF i > Len(ts) THEN [ok |-> TRUE, rows |-> rows]
    ELSE IF Slot(ts[i]) \in TakenSlots(rows) THEN [ok |-> FALSE, rows |-> rows]
    ELSE insert_tickets(ts, i + 1, order,
            rows \cup {[flight |-> ts[i].flight, row |-> ts[i].row,
                        seat |-> ts[i].seat, order |-> order]})

\* OrderViewSet.permission_classes
Order_permission_classes(u) == IsAuthenticated(u)

\* POST /orders/: the permission check and serializer.is_valid; a list that
\* does not validate is answered 400 here.
Order_create(r, u, ts) ==
    /\ opc[r] = "idle"
    /\ IF ~Order_permission_classes(u)
       THEN /\ opc' = [opc EXCEPT ![r] = "done"]
            /\ orq' = [orq EXCEPT ![r] = [user |-> u, tickets |-> <<>>]]
            /\ oresp' = [oresp EXCEPT ![r] = [status |-> permission_denied(u), order |-> 0]]
       ELSE IF ~OrderSerializer_is_valid(ts)
       THEN /\ opc' = [opc EXCEPT ![r] = "done"]
            /\ orq' = [orq EXCEPT ![r] = [user |-> u, tickets |-> <<>>]]
            /\ oresp' = [oresp EXCEPT ![r] = [status |-> HTTP_400_BAD_REQUEST, order |-> 0]]
       ELSE /\ opc' = [opc EXCEPT ![r] = "perform_create"]
            /\ orq' = [orq EXCEPT ![r] = [user |-> u, tickets |-> ts]]
            /\ UNCHANGED oresp
    /\ UNCHANGED <<viewVars, chatVars, msgVars, orders, order_seq, tickets, olisted>>

\* The owner perform_create passes to serializer.save.
perform_create_user(r) == orq[r].user

\* perform_create: serializer.save(user=request.user), one transaction that
\* inserts the order and then its tickets and is rolled back as a whole when
\* the store refuses a ticket.
perform_create(r) ==
    /\ opc[r] = "perform_create"
    /\ LET id == order_seq + 1
           res == insert_tickets(orq[r].tickets, 1, id, tickets)
       IN  IF res.ok
           THEN /\ orders' = orders \cup {[id |-> id, user |-> perform_create_user(r)]}
                /\ order_seq' = id
                /\ tickets' = res.rows
                /\ oresp' = [oresp EXCEPT ![r] = [status |-> HTTP_201_CREATED, order |-> id]]
           ELSE /\ UNCHANGED <<orders, order_seq, tickets>>
                /\ oresp' = [oresp EXCEPT ![r] = [status |-> HTTP_409_CONFLICT, order |-> 0]]
    /\ opc' = [opc EXCEPT ![r] = "done"]
    /\ orq' = [orq EXCEPT ![r] = [user |-> orq[r].user, tickets |-> <<>>]]
    /\ UNCHANGED <<viewVars, chatVars, msgVars, olisted>>

\* The worker has sent its response and takes the next request.
Order_respond(r) ==
    /\ opc[r] = "done"
    /\ opc' = [opc EXCEPT ![r] = "idle"]
    /\ orq' = [orq EXCEPT ![r] = NoOrderRequest]
    /\ oresp' = [oresp EXCEPT ![r] = NoOrderResponse]
    /\ UNCHANGED <<viewVars, chatVars, msgVars, orders, order_seq, tickets, olisted>>

\* A query set that is not narrowed to the caller.
Order_get_queryset_all(u) == orders

\* OrderViewSet.get_queryset: filter(user=self.request.user).distinct()
Order_get_queryset(u) == {o \in orders : o.user = u}

\* GET /orders/
Order_list(u) ==
    /\ olisted' =
         IF ~Order_permission_classes(u)
         THEN [op |-> "list", user |-> u, pk |-> 0,
               status |-> permission_denied(u), ids |-> {}]
         ELSE [op |-> "list", user |-> u, pk |-> 0, status |-> HTTP_200_OK,
               ids |-> {o.id : o \in Order_get_queryset(u)}]
    /\ UNCHANGED <<viewVars, chatVars, msgVars, orders, order_seq, tickets, opc, orq, oresp>>

\* GET /orders/{pk}: get_object on the query set.
Order_retrieve(u, pk) ==
    /\ olisted' =
         IF ~Order_permission_classes(u)
         THEN [op |-> "retrieve", user |-> u, pk |-> pk,
               status |-> permission_denied(u), ids |-> {}]
         ELSE IF pk \notin {o.id : o \in Order_get_queryset(u)}
         THEN [op |-> "retrieve", user |-> u, pk |-> pk,
               status |-> HTTP_404_NOT_FOUND, ids |-> {}]
         ELSE [op |-> "retrieve", user |-> u, pk |-> pk,
               status |-> HTTP_200_OK, ids |-> {pk}]
    /\ UNCHANGED <<viewVars, chatVars, msgVars, orders, order_seq, tickets, opc, orq, oresp>>

\* The users who place orders, and the order ids a retrieve may name.
Buyers == {Anonymous, "u1", "s1"}
OrderPks == 1..3

OrderInit == ChatInit

\* Order placement by concurrent workers.
OrderNext ==
    \/ \E r \in Reqs, u \in Buyers, ts \in TicketLists : Order_create(r, u, ts)
    \/ \E r \in Reqs : perform_create(r)
    \/ \E r \in Reqs : Order_respond(r)

\* Order placement and the order listings, one request at a time.
OwnershipNext ==
    \/ \E u \in Buyers, ts \in TicketLists : Order_create(1, u, ts)
    \/ perform_create(1)
    \/ Order_respond(1)
    \/ \E u \in Buyers : Order_list(u)
    \/ \E u \in Buyers, pk \in OrderPks : Order_retrieve(u, pk)

OwnershipSpec == OrderInit /\ [][OwnershipNext]_vars

OrderSpec == OrderInit /\ [][OrderNext]_vars

\* ------------------------------------------------------------ flight list
\* Query-string values are sequences of characters.
Digits == <<"0", "1", "2", "3", "4", "5", "6", "7", "8", "9">>
IsDigit(c) == \E i \in DOMAIN Digits : Digits[i] = c
DigitValue(c) == (CHOOSE i \in DOMAIN Digits : Digits[i] = c) - 1
AllDigits(s) == Len(s) > 0 /\ \A i \in 1..Len(s) : IsDigit(s[i])

\* int(str) of a digit string.
RECURSIVE int(_)
int(s) ==
    IF s = <<>> THEN 0
    ELSE 10 * int(SubSeq(s, 1, Len(s) - 1)) + DigitValue(s[Len(s)])

\* str.split(sep)
RECURSIVE split(_, _)
split(s, sep) ==
    IF \A i \in 1..Len(s) : s[i] # sep THEN <<s>>
    ELSE LET i == CHOOSE k \in 1..Len(s) :
                    s[k] = sep /\ \A j \in 1..(k - 1) : s[j] # sep
         IN  <<SubSeq(s, 1, i - 1)>> \o split(SubSeq(s, i + 1, Len(s)), sep)

\* params_to_ints: [int(str_id) for str_id in queryset.split(",")]; int raises
\* ValueError (ok = FALSE) on a piece that is not a number.
params_to_ints(queryset) ==
    LET parts == split(queryset, ",")
    IN  IF \A i \in 1..Len(parts) : AllDigits(parts[i])
        THEN [ok |-> TRUE, ids |-> {int(parts[i]) : i \in 1..Len(parts)}]
        ELSE [ok |-> FALSE, ids |-> {}]

IsLeap(y) == (y % 4 = 0 /\ y % 100 # 0) \/ y % 400 = 0
DaysInMonth(y, m) ==
    IF m = 2 THEN (IF IsLeap(y) THEN 29 ELSE 28)
    ELSE IF m \in {4, 6, 9, 11} THEN 30 ELSE 31

\* datetime.strptime(departure_time, "%Y-%m-%d").date(): %Y takes four
\* digits, %m and %d one or two; the whole string must match and the fields
\* must name a calendar day, else ValueError (ok = FALSE).
strptime_date(s) ==
    LET parts == split(s, "-")
        bad == [ok |-> FALSE, date |-> <<0, 0, 0>>]
    IN  IF Len(parts) # 3 THEN bad
        ELSE IF ~(AllDigits(parts[1]) /\ Len(parts[1]) = 4) THEN bad
        ELSE IF ~(AllDigits(parts[2]) /\ Len(parts[2]) <= 2) THEN bad
        ELSE IF ~(AllDigits(parts[3]) /\ Len(parts[3]) <= 2) THEN bad
        ELSE LET y == int(parts[1])
                 m == int(parts[2])
                 d == int(parts[3])
             IN  IF y >= 1 /\ m >= 1 /\ m <= 12 /\ d >= 1 /\ d <= DaysInMonth(y, m)
                 THEN [ok |-> TRUE, date |-> <<y, m, d>>]
                 ELSE bad

\* Flight rows: route and departure_time (year, month, day, hour).
flights ==
    [f \in FlightIds |->
        IF f = 1 THEN [route |-> 1, departure_time |-> <<2024, 3, 1, 8>>]
        ELSE IF f = 2 THEN [route |-> 2, departure_time |-> <<2024, 3, 1, 23>>]
        ELSE [route |-> 1, departure_time |-> <<2024, 3, 2, 0>>]]

\* The departure_time__date lookup: the date part of the timestamp.
departure_date(f) ==
    LET t == flights[f].departure_time IN <<t[1], t[2], t[3]>>

\* The rows the LEFT OUTER JOIN of a flight with its tickets yields: one per
\* ticket, or a single row with a NULL ticket.
NullTicket == [flight |-> 0, row |-> 0, seat |-> 0, order |-> 0]
join_tickets(f) ==
    IF \E t \in tickets : t.flight = f
    THEN {[flight |-> f, ticket |-> t] : t \in {x \in tickets : x.flight = f}}
    ELSE {[flight |-> f, ticket |-> NullTicket]}

\* COUNT(*) over the joined rows.
count_rows(f) == Cardinality(join_tickets(f))

\* Count("tickets"): COUNT(ticket.id) over the joined rows, NULLs skipped.
count_tickets(f) == Cardinality({j \in join_tickets(f) : j.ticket # NullTicket})

\* F("airplane__rows") * F("airplane__seats_in_row") - Count("tickets")
free_tickets_seat(f) ==
    airplane[f].rows * airplane[f].seats_in_row - count_tickets(f)

\* FlightViewSet.get_queryset for the list and retrieve actions; ok = FALSE
\* when a parameter raised ValueError.
Flight_get_queryset(route, departure_time) ==
    LET route_ids == params_to_ints(route)
        day == strptime_date(departure_time)
    IN  IF route # <<>> /\ ~route_ids.ok THEN [ok |-> FALSE, rows |-> {}]
        ELSE IF departure_time # <<>> /\ ~day.ok THEN [ok |-> FALSE, rows |-> {}]
        ELSE [ok |-> TRUE,
              rows |->
                {[id |-> f, free_tickets_seat |-> free_tickets_seat(f)] :
                    f \in {g \in FlightIds :
                            /\ route # <<>> => flights[g].route \in route_ids.ids
                            /\ departure_time # <<>> => departure_date(g) = day.date}}]

\* IsAdminOrReadOnly: anyone may read, staff may write.
IsAdminOrReadOnly(u, safe) == safe \/ IsAdminUser(u)

\* IsAdminOrIfAuthenticatedReadOnly: authenticated users may read, staff may
\* write.
IsAdminOrIfAuthenticatedReadOnly(u, safe) ==
    (safe /\ is_authenticated(u)) \/ IsAdminUser(u)

\* GET /flights/?route=&departure_time=: an exception the handler does not
\* catch is answered 500.  The three rows fit the first page.
Flight_list(u, route, departure_time) ==
    /\ LET qs == Flight_get_queryset(route, departure_time)
           answered(status, rows) ==
               [op |-> "list", pk |-> 0, route |-> route,
                departure_time |-> departure_time, status |-> status, rows |-> rows]
       IN  flist' =
             IF ~IsAdminOrReadOnly(u, TRUE) THEN answered(permission_denied(u), {})
             ELSE IF ~qs.ok THEN answered(HTTP_500_INTERNAL_SERVER_ERROR, {})
             ELSE answered(HTTP_200_OK, qs.rows)
    /\ UNCHANGED <<chatVars, msgVars, orderVars, access>>

\* GET /flights/{pk}/: get_object on the same query set.
Flight_retrieve(u, pk, route, departure_time) ==
    /\ LET qs == Flight_get_queryset(route, departure_time)
           answered(status, rows) ==
               [op |-> "retrieve", pk |-> pk, route |-> route,
                departure_time |-> departure_time, status |-> status, rows |-> rows]
       IN  flist' =
             IF ~IsAdminOrReadOnly(u, TRUE) THEN answered(permission_denied(u), {})
             ELSE IF ~qs.ok THEN answered(HTTP_500_INTERNAL_SERVER_ERROR, {})
             ELSE IF \A x \in qs.rows : x.id # pk THEN answered(HTTP_404_NOT_FOUND, {})
             ELSE answered(HTTP_200_OK, {x \in qs.rows : x.id = pk})
    /\ UNCHANGED <<chatVars, msgVars, orderVars, access>>

\* The query-string values a client sends: none, well-formed ones, and ones
\* that int or strptime refuse.
RouteParams ==
    { <<>>, <<"1">>, <<"1", ",", "2">>, <<"1", ",">> }
DateParams ==
    { <<>>,
      <<"2", "0", "2", "4", "-", "0", "3", "-", "0", "1">>,
      <<"2", "0", "2", "4", "-", "0", "3", "-", "0", "2">>,
      <<"2", "0", "2", "4", "-", "3", "-", "1">>,
      <<"2", "0", "2", "3", "-", "0", "2", "-", "2", "9">>,
      <<"0", "1", "-", "0", "3", "-", "2", "0", "2", "4">>,
      <<"2", "0", "2", "4", "-", "0", "3">> }
\* A flight that exists and a pk that names none.
FlightPks == {1, 4}

\* Ticket lists that fill flight 1, besides those of TicketInputs.
SeatInputs == TicketInputs \cup {[flight |-> 1, row |-> 2, seat |-> 1]}
SeatLists == UNION {[1..n -> SeatInputs] : n \in 1..2}

FlightNext ==
    \/ \E ts \in SeatLists : Order_create(1, "u1", ts)
    \/ perform_create(1)
    \/ Order_respond(1)
    \/ \E u \in {Anonymous}, route \in RouteParams, d \in DateParams :
          Flight_list(u, route, d)
    \/ \E u \in {Anonymous}, pk \in FlightPks, route \in RouteParams, d \in DateParams :
          Flight_retrieve(u, pk, route, d)

FlightSpec == OrderInit /\ [][FlightNext]_vars

\* ------------------------------------------------------------ permissions
\* The view sets router.register exposes, and the actions of a ModelViewSet.
ViewSets ==
    {"crews", "airplane_types", "airplanes", "airports", "routes", "flights",
     "orders", "cities", "countries"}
Actions == {"list", "retrieve", "create", "update", "partial_update", "destroy"}

\* SAFE_METHODS: list and retrieve are served by GET.
is_safe(action) == action \in {"list", "retrieve"}

\* An AirplaneType view set guarded like Crew and Airplane.
permission_classes_open_types(viewset) ==
    CASE viewset = "crews" -> "IsAdminOrIfAuthenticatedReadOnly"
      [] viewset = "airplane_types" -> "IsAdminOrIfAuthenticatedReadOnly"
      [] viewset = "airplanes" -> "IsAdminOrIfAuthenticatedReadOnly"
      [] viewset = "airports" -> "IsAdminOrReadOnly"
      [] viewset = "routes" -> "IsAdminOrReadOnly"
      [] viewset = "flights" -> "IsAdminOrReadOnly"
      [] viewset = "orders" -> "IsAuthenticated"
      [] viewset = "countries" -> "IsAdminUser"
      [] viewset = "cities" -> "IsAdminUser"

\* The permission_classes attribute of each view set.
permission_classes(viewset) ==
    CASE viewset = "crews" -> "IsAdminOrIfAuthenticatedReadOnly"
      [] viewset = "airplane_types" -> "IsAdminUser"
      [] viewset = "airplanes" -> "IsAdminOrIfAuthenticatedReadOnly"
      [] viewset = "airports" -> "IsAdminOrReadOnly"
      [] viewset = "routes" -> "IsAdminOrReadOnly"
      [] viewset = "flights" -> "IsAdminOrReadOnly"
      [] viewset = "orders" -> "IsAuthenticated"
      [] viewset = "countries" -> "IsAdminUser"
      [] viewset = "cities" -> "IsAdminUser"

has_permission(class, u, action) ==
    CASE class = "IsAdminUser" -> IsAdminUser(u)
      [] class = "IsAuthenticated" -> IsAuthenticated(u)
      [] class = "IsAdminOrReadOnly" -> IsAdminOrReadOnly(u, is_safe(action))
      [] class = "IsAdminOrIfAuthenticatedReadOnly" ->
            IsAdminOrIfAuthenticatedReadOnly(u, is_safe(action))

\* APIView.initial: the permission check every request passes before its
\* handler runs.
check_permissions(u, viewset, action) ==
    /\ access' = [viewset |-> viewset, action |-> action, user |-> u,
                  served |-> has_permission(permission_classes(viewset), u, action)]
    /\ UNCHANGED <<chatVars, msgVars, orderVars, flist>>

PermissionNext ==
    \E u \in Principals, v \in ViewSets, a \in Actions : check_permissions(u, v, a)

PermissionSpec == OrderInit /\ [][PermissionNext]_vars

\* ------------------------------------------------------- the whole service
\* Every request of every view set, by concurrent workers.  The claims are
\* checked under the specifications above, each of which lets one part of
\* the service run.
Init == VisibilityInit

Next ==
    \/ ChatNext
    \/ VisibilityNext
    \/ MessageNext
    \/ OrderNext
    \/ OwnershipNext
    \/ FlightNext
    \/ PermissionNext

Spec == Init /\ [][Next]_vars

\* ---------------------------------------------------------------- claims
SameTarget(a, b) == rq[a].user = rq[b].user /\ rq[a].chat = rq[b].chat

\* Two requests on one target overlapped: one ran its membership test while
\* the other stood between its own test and its mutation.
Overlap(a, b) == a \in rq[b].during \/ b \in rq[a].during

\* C1: chat membership is a strict two-state machine per (chat, user).  A
\* connect by a staff user whose membership test finds them a member answers
\* 400 and leaves user_list unchanged; one that finds them absent goes on to
\* add them and answers 200, after which they are a member.  Disconnect is the
\* inverse.  A connect that follows a successful connect of the same user on
\* the same chat, with no successful disconnect since, answers 400.
C1_MembershipStrict ==
    [][\A r \in Reqs :
        LET q == rq'[r]
            u == q.user
            c == q.chat
            served == IsAdminUser(u) /\ c \in ChatIds
            tested == pc[r] = "idle" /\ pc'[r] # "idle" /\ served
        IN  /\ (tested /\ q.op = "connect" /\ u \in user_list[c])
                => (pc'[r] = "done" /\ resp'[r] = HTTP_400_BAD_REQUEST
                    /\ user_list' = user_list)
            /\ (tested /\ q.op = "connect" /\ u \notin user_list[c])
                => (pc'[r] = "connect_add" /\ user_list' = user_list)
            /\ (pc[r] = "connect_add" /\ pc'[r] # pc[r])
                => (pc'[r] = "done" /\ resp'[r] = HTTP_200_OK
                    /\ user_list' = [user_list EXCEPT ![c] = @ \cup {u}])
            /\ (tested /\ q.op = "disconnect" /\ u \notin user_list[c])
                => (pc'[r] = "done" /\ resp'[r] = HTTP_400_BAD_REQUEST
                    /\ user_list' = user_list)
            /\ (tested /\ q.op = "disconnect" /\ u \in user_list[c])
                => (pc'[r] = "disconnect_remove" /\ user_list' = user_list)
            /\ (pc[r] = "disconnect_remove" /\ pc'[r] # pc[r])
                => (pc'[r] = "done" /\ resp'[r] = HTTP_200_OK
                    /\ user_list' = [user_list EXCEPT ![c] = @ \ {u}])
            /\ (tested /\ q.op = "connect" /\ last_ok[c][u] = "connect")
                => resp'[r] = HTTP_400_BAD_REQUEST
      ]_vars

\* Two connects in a row by one staff user on one chat, the second starting
\* after the first has finished: the first answered 200, the second 400.
C1_Witness ==
    \E a, b \in Reqs :
        /\ a # b /\ pc[a] = "done" /\ pc[b] = "done"
        /\ rq[a].op = "connect" /\ rq[b].op = "connect"
        /\ SameTarget(a, b) /\ ~Overlap(a, b)
        /\ resp[a] = HTTP_200_OK /\ resp[b] = HTTP_400_BAD_REQUEST
        /\ last_ok[rq[a].chat][rq[a].user] = "connect"

\* C10: of two overlapping connect requests (or two overlapping disconnect
\* requests) by the same staff user on the same chat, with no third request
\* overlapping them, exactly one answers 200 and the other 400.
C10_ConcurrentExactlyOne ==
    \A a, b \in Reqs :
        (/\ a # b /\ pc[a] = "done" /\ pc[b] = "done"
         /\ rq[a].op = rq[b].op /\ rq[a].op \in {"connect", "disconnect"}
         /\ SameTarget(a, b) /\ Overlap(a, b)
         /\ rq[a].during \subseteq {a, b} /\ rq[b].during \subseteq {a, b}
         /\ IsAdminUser(rq[a].user) /\ rq[a].chat \in ChatIds)
        => {resp[a], resp[b]} = {HTTP_200_OK, HTTP_400_BAD_REQUEST}

\* C7: a regular (non-staff) user who lists or retrieves chat threads sees
\* exactly the enabled threads whose user_list contains them; a staff user
\* sees only enabled threads flagged is_support.
C7_ThreadVisibility ==
    [][listed' # listed =>
        LET u == listed'.user
            mine == {c \in ChatIds : enabled[c] /\ u \in user_list[c]}
        IN  /\ (listed'.op = "list" /\ u \in Users /\ ~is_staff(u))
                => listed'.ids = mine
            /\ (listed'.op = "retrieve" /\ u \in Users /\ ~is_staff(u))
                => listed'.ids = mine \cap {listed'.pk}
            /\ (u \in Users /\ is_staff(u))
                => listed'.ids \subseteq {c \in ChatIds : enabled[c] /\ is_support[c]}
      ]_vars

\* C2: for every user u and every chat message m whose author is not u, an
\* update_message or delete_message request by u targeting m is answered
\* not-found, and m is unmodified afterwards.
C2_ForeignMessageNotFound ==
    [][\A m \in MsgIds :
        (/\ last' # last
         /\ last'.op \in {"update_message", "delete_message"}
         /\ last'.msg = m
         /\ last'.user \in Users
         /\ messages[m].exists
         /\ messages[m].user # last'.user)
        => (last'.status = HTTP_404_NOT_FOUND /\ messages'[m] = messages[m])
      ]_vars

\* C11: a message created by create_message on the path
\* /chat_support/{id}/create_message belongs to chat {id} and is authored by
\* the requesting user, whatever support_msg the request body carries.
C11_MessageInPathChat ==
    [][(/\ last' # last
        /\ last'.op = "create_message"
        /\ last'.status = HTTP_200_OK)
       => (/\ messages'[last'.msg].exists
           /\ messages'[last'.msg].support_msg = last'.pk
           /\ messages'[last'.msg].user = last'.user)
      ]_vars

\* The authorship half of C11 alone: the created message is authored by the
\* requesting user.
C11_AuthoredByRequester ==
    [][(/\ last' # last
        /\ last'.op = "create_message"
        /\ last'.status = HTTP_200_OK)
       => (/\ messages'[last'.msg].exists
           /\ messages'[last'.msg].user = last'.user)
      ]_vars

\* A ticket list with at least one invalid ticket: out of the airplane's
\* row/seat range, on a slot the store already holds, or on a slot the list
\* names twice.
HasInvalidTicket(ts) ==
    \E i \in 1..Len(ts) :
        \/ ts[i].row < 1 \/ ts[i].row > airplane[ts[i].flight].rows
        \/ ts[i].seat < 1 \/ ts[i].seat > airplane[ts[i].flight].seats_in_row
        \/ \E t \in tickets : Slot(t) = Slot(ts[i])
        \/ \E j \in 1..Len(ts) : j # i /\ Slot(ts[j]) = Slot(ts[i])

\* C3: every order is owned by the user whose request created it, its owner
\* never changes, and a list or retrieve request by u returns only orders
\* whose user is u.
C3_OrderOwnership ==
    [][/\ \A r \in Reqs :
            (opc[r] = "perform_create" /\ opc'[r] = "done"
             /\ oresp'[r].status = HTTP_201_CREATED)
            => /\ oresp'[r].order \notin {o.id : o \in orders}
               /\ orders' = orders \cup {[id |-> oresp'[r].order, user |-> orq[r].user]}
       /\ orders \subseteq orders'
       /\ \A a, b \in orders' : a.id = b.id => a = b
       /\ olisted' # olisted
            => /\ olisted'.ids \subseteq {o.id : o \in orders'}
               /\ \A o \in orders' : o.id \in olisted'.ids => o.user = olisted'.user
               /\ (olisted'.op = "list" /\ is_authenticated(olisted'.user))
                    => olisted'.ids = {o.id : o \in {x \in orders' : x.user = olisted'.user}}
      ]_vars

\* A list by one user returned an order while another user's order exists.
C3_Witness ==
    /\ olisted.op = "list" /\ olisted.status = HTTP_200_OK /\ olisted.ids # {}
    /\ \E o \in orders : o.user # olisted.user

\* C4: a create-order request by an authenticated user whose ticket list
\* holds an invalid ticket is answered with a validation error (400), and
\* every order request that fails leaves the persisted orders and tickets
\* exactly as they were.
C4_OrderCreationAtomic ==
    [][/\ \A r \in Reqs :
            (opc[r] = "idle" /\ opc'[r] # "idle" /\ is_authenticated(orq'[r].user))
            => \A ts \in TicketLists :
                 (Order_create(r, orq'[r].user, ts) /\ HasInvalidTicket(ts))
                 => /\ opc'[r] = "done"
                    /\ oresp'[r].status = HTTP_400_BAD_REQUEST
                    /\ orders' = orders /\ tickets' = tickets
       /\ \A r \in Reqs :
            (oresp'[r] # oresp[r] /\ oresp'[r].status \notin {0, HTTP_201_CREATED})
            => (orders' = orders /\ tickets' = tickets /\ oresp'[r].order = 0)
      ]_vars

\* A request was refused for its ticket list while the store held an order.
C4_Witness ==
    \E r \in Reqs :
        /\ opc[r] = "done" /\ oresp[r].status = HTTP_400_BAD_REQUEST
        /\ orders # {} /\ tickets # {}

\* C5: every persisted ticket lies within the rows and seats of its flight's
\* airplane, no two persisted tickets of one flight share (row, seat), and a
\* purchase that reaches the store after its slot was taken is answered with
\* an error and adds no ticket.
C5_TicketSlots ==
    [][/\ \A t \in tickets' :
            /\ 1 <= t.row /\ t.row <= airplane[t.flight].rows
            /\ 1 <= t.seat /\ t.seat <= airplane[t.flight].seats_in_row
       /\ \A a, b \in tickets' : Slot(a) = Slot(b) => a = b
       /\ \A r \in Reqs :
            (/\ opc[r] = "perform_create" /\ opc'[r] = "done"
             /\ \E i \in 1..Len(orq[r].tickets) :
                    Slot(orq[r].tickets[i]) \in TakenSlots(tickets))
            => (oresp'[r].status >= 400 /\ tickets' = tickets /\ orders' = orders)
      ]_vars

\* Two purchases raced for one slot: one holds the ticket, the other was
\* answered with the store's conflict.
C5_Witness ==
    \E a, b \in Reqs :
        /\ a # b /\ opc[a] = "done" /\ opc[b] = "done"
        /\ oresp[a].status = HTTP_201_CREATED
        /\ oresp[b].status = HTTP_409_CONFLICT
        /\ \E t \in tickets : t.order = oresp[a].order

\* The flights whose departure timestamp falls on the day a YYYY-MM-DD value
\* names, read off the value's fixed positions.
IsDateText(s) ==
    /\ Len(s) = 10 /\ s[5] = "-" /\ s[8] = "-"
    /\ \A i \in {1, 2, 3, 4, 6, 7, 9, 10} : IsDigit(s[i])
    /\ LET y == int(SubSeq(s, 1, 4))
           m == int(SubSeq(s, 6, 7))
           d == int(SubSeq(s, 9, 10))
       IN  y >= 1 /\ m \in 1..12 /\ d >= 1 /\ d <= DaysInMonth(y, m)
FlightsOn(s) ==
    {f \in FlightIds :
        /\ flights[f].departure_time[1] = int(SubSeq(s, 1, 4))
        /\ flights[f].departure_time[2] = int(SubSeq(s, 6, 7))
        /\ flights[f].departure_time[3] = int(SubSeq(s, 9, 10))}

\* C8 (first half): a well-formed YYYY-MM-DD departure_time, with no route
\* filter, lists exactly the flights that depart on that day.
C8_WellFormedDateFilter ==
    [][(flist' # flist /\ flist'.op = "list" /\ flist'.route = <<>>
        /\ IsDateText(flist'.departure_time))
       => /\ flist'.status = HTTP_200_OK
          /\ {x.id : x \in flist'.rows} = FlightsOn(flist'.departure_time)
      ]_vars

\* C8: a well-formed YYYY-MM-DD departure_time lists exactly the flights that
\* depart on that day, whatever their time of day, and a departure_time that
\* names no date is answered with a validation error (400).
C8_DepartureTimeFilter ==
    [][(flist' # flist /\ flist'.op = "list" /\ flist'.route = <<>>)
       => /\ IsDateText(flist'.departure_time)
              => /\ flist'.status = HTTP_200_OK
                 /\ {x.id : x \in flist'.rows} = FlightsOn(flist'.departure_time)
          /\ (flist'.departure_time # <<>> /\ ~strptime_date(flist'.departure_time).ok)
              => flist'.status = HTTP_400_BAD_REQUEST
      ]_vars

\* C9: every flight a list or retrieve returns, under any route and
\* departure_time filters, carries free_tickets_seat = rows * seats_in_row
\* less the number of tickets persisted for that flight.
C9_FreeSeats ==
    [][flist' # flist
       => \A x \in flist'.rows :
            x.free_tickets_seat =
                airplane[x.id].rows * airplane[x.id].seats_in_row
                - Cardinality({t \in tickets' : t.flight = x.id})
      ]_vars

\* A filtered list returned a flight with two tickets sold and one with none.
C9_Witness ==
    /\ flist.op = "list" /\ flist.status = HTTP_200_OK
    /\ flist.route # <<>> /\ flist.departure_time # <<>>
    /\ \E x \in flist.rows : Cardinality({t \in tickets : t.flight = x.id}) = 2
    /\ \E x \in flist.rows : Cardinality({t \in tickets : t.flight = x.id}) = 0

\* C6 as claimed: AirplaneType, Country, City and Crew refuse every action of
\* an unauthenticated caller and of an authenticated non-staff user, and
\* serve staff.
C6_AdminOnlyFour ==
    access.viewset \in {"airplane_types", "countries", "cities", "crews"}
    => (access.served <=> (is_authenticated(access.user) /\ is_staff(access.user)))

\* C6 as amended: AirplaneType, Country and City refuse every action of an
\* unauthenticated caller and of an authenticated non-staff user, and serve
\* staff.  Crew refuses every action of an unauthenticated caller and every
\* write of a non-staff user, serves staff, and serves list and retrieve to
\* any authenticated user.
C6_AdminOnlyThree ==
    /\ access.viewset \in {"airplane_types", "countries", "cities"}
        => (access.served <=> (is_authenticated(access.user) /\ is_staff(access.user)))
    /\ access.viewset = "crews"
        => (access.served <=>
                /\ is_authenticated(access.user)
                /\ is_staff(access.user) \/ access.action \in {"list", "retrieve"})

\* A non-staff user was refused a read of AirplaneType.
C6_Witness ==
    /\ access.viewset = "airplane_types" /\ access.action = "list"
    /\ access.user = "u1" /\ ~access.served

====
